---- MODULE Spec2Model ----
(***************************************************************************)
(* Model of the configuration-binding library: value coercion (value.ts),  *)
(* value sources (sources/*.ts), the property binder and the settings tree *)
(* (settings.ts) and the declaration factory (decorators.ts).              *)
(*                                                                         *)
(* JavaScript values are tagged records.  A text is a sequence of          *)
(* one-character strings, so that String(), trim(), split(), toLowerCase() *)
(* and parseFloat() are computed character by character.  The alphabet of  *)
(* the texts of this model is: digits, letters, " " and ",".  It has no    *)
(* "-", "+" or ".", so every number of the model is a natural number.      *)
(***************************************************************************)
EXTENDS Integers, Sequences, FiniteSets, TLC

\* ------------------------------------------------------------ bounds
\* Largest number of comma-separated tokens of a generated list text.
MaxTokens == 3
\* Largest number of constituent sources of a composite source.
MaxSources == 2
\* Largest number of Settings instances of a tree.
MaxNodes == 3

\* ------------------------------------------------------------ JS values
Undefined == [k |-> "undefined"]
Null == [k |-> "null"]
NaN == [k |-> "NaN"]
Str(s) == [k |-> "string", s |-> s]
Num(n) == [k |-> "number", n |-> n]
Bool(b) == [k |-> "boolean", b |-> b]
Arr(a) == [k |-> "array", a |-> a]

T_undefined == <<"u", "n", "d", "e", "f", "i", "n", "e", "d">>
T_null == <<"n", "u", "l", "l">>
T_true == <<"t", "r", "u", "e">>
T_false == <<"f", "a", "l", "s", "e">>
T_NaN == <<"N", "a", "N">>

Digits == <<"0", "1", "2", "3", "4", "5", "6", "7", "8", "9">>

DigitValue(c) == CHOOSE d \in 0..9 : Digits[d + 1] = c

isDigit(c) == \E d \in 0..9 : Digits[d + 1] = c

isSpace(c) == c = " "

RECURSIVE NumberToString(_)
NumberToString(n) ==
    IF n < 10 THEN <<Digits[n + 1]>>
    ELSE NumberToString(n \div 10) \o <<Digits[(n % 10) + 1]>>

\* String(v) of a value that is no array.
ScalarToString(v) ==
    CASE v.k = "undefined" -> T_undefined
      [] v.k = "null" -> T_null
      [] v.k = "NaN" -> T_NaN
      [] v.k = "string" -> v.s
      [] v.k = "number" -> NumberToString(v.n)
      [] v.k = "boolean" -> IF v.b THEN T_true ELSE T_false

\* Array.prototype.join(","): null and undefined elements give the empty text.
RECURSIVE ArrayJoin(_)
ArrayJoin(a) ==
    IF a = <<>> THEN <<>>
    ELSE LET first == IF Head(a) \in {Null, Undefined} THEN <<>>
                      ELSE ScalarToString(Head(a))
         IN IF Len(a) = 1 THEN first
            ELSE first \o <<",">> \o ArrayJoin(Tail(a))

\* String(v)
String(v) == IF v.k = "array" THEN ArrayJoin(v.a) ELSE ScalarToString(v)

RECURSIVE trimStart(_)
trimStart(s) ==
    IF s # <<>> /\ isSpace(Head(s)) THEN trimStart(Tail(s)) ELSE s

RECURSIVE trimEnd(_)
trimEnd(s) ==
    IF s # <<>> /\ isSpace(s[Len(s)]) THEN trimEnd(SubSeq(s, 1, Len(s) - 1)) ELSE s

\* String.prototype.trim
trim(s) == trimEnd(trimStart(s))

UpperCase == <<"T", "R", "U", "E", "F", "A", "L", "S", "N">>
LowerCase == <<"t", "r", "u", "e", "f", "a", "l", "s", "n">>

toLowerChar(c) ==
    IF \E i \in 1..Len(UpperCase) : UpperCase[i] = c
    THEN LowerCase[CHOOSE i \in 1..Len(UpperCase) : UpperCase[i] = c]
    ELSE c

\* String.prototype.toLowerCase
toLowerCase(s) == [i \in 1..Len(s) |-> toLowerChar(s[i])]

\* Length of the longest prefix of s made of digits.
RECURSIVE DigitPrefixLen(_)
DigitPrefixLen(s) ==
    IF s # <<>> /\ isDigit(Head(s)) THEN 1 + DigitPrefixLen(Tail(s)) ELSE 0

RECURSIVE DigitsToNumber(_)
DigitsToNumber(s) ==
    IF s = <<>> THEN 0
    ELSE 10 * DigitsToNumber(SubSeq(s, 1, Len(s) - 1)) + DigitValue(s[Len(s)])

RECURSIVE Pow10(_)
Pow10(e) == IF e = 0 THEN 1 ELSE 10 * Pow10(e - 1)

\* parseFloat: leading white space is skipped, then the longest numeric prefix
\* is read: digits, then an optional exponent ("e" or "E" and digits).
parseFloat(text) ==
    LET s == trimStart(text)
        m == DigitPrefixLen(s)
        rest == SubSeq(s, m + 1, Len(s))
        hasExp == /\ rest # <<>>
                  /\ Head(rest) \in {"e", "E"}
                  /\ DigitPrefixLen(Tail(rest)) > 0
        mant == DigitsToNumber(SubSeq(s, 1, m))
    IN IF m = 0 THEN NaN
       ELSE IF hasExp
            THEN LET x == DigitPrefixLen(Tail(rest))
                 IN Num(mant * Pow10(DigitsToNumber(SubSeq(Tail(rest), 1, x))))
            ELSE Num(mant)

isNaN(v) == v.k = "NaN"

\* The separator /\s*,\s*/ matched at the head of s: its length, 0 when it
\* does not match there.
SeparatorLen(s) ==
    LET before == Len(s) - Len(trimStart(s))
        atComma == SubSeq(s, before + 1, Len(s))
    IN IF atComma # <<>> /\ Head(atComma) = ","
       THEN before + 1 + (Len(Tail(atComma)) - Len(trimStart(Tail(atComma))))
       ELSE 0

\* String.prototype.split(/\s*,\s*/): cur is the token read so far.
RECURSIVE SplitFrom(_, _)
SplitFrom(s, cur) ==
    IF s = <<>> THEN <<cur>>
    ELSE IF SeparatorLen(s) > 0
         THEN <<cur>> \o SplitFrom(SubSeq(s, SeparatorLen(s) + 1, Len(s)), <<>>)
         ELSE SplitFrom(Tail(s), Append(cur, Head(s)))

split(s) == SplitFrom(s, <<>>)

\* JavaScript truthiness, as used by `defaultValue || []`.
Truthy(v) ==
    ~ \/ v \in {Undefined, Null, NaN}
      \/ v = Bool(FALSE)
      \/ v = Num(0)
      \/ v = Str(<<>>)

\* ------------------------------------------------------------ value.ts
nullValues == {Null, Undefined}

trueValues == {Bool(TRUE), Num(1), Str(T_true), Str(<<"1">>)}

falseValues == {Bool(FALSE), Num(0), Str(T_false), Str(<<"0">>)}

booleanValues == trueValues \cup falseValues

isUndefined(value) == value \in nullValues

isUndefinedOrEmpty(value) == isUndefined(value) \/ trim(String(value)) = <<>>

isBoolean(value) == ~isUndefined(value) /\ value \in booleanValues

getString(value, defaultValue) ==
    IF isUndefinedOrEmpty(value) THEN defaultValue ELSE Str(String(value))

getBoolean(value, defaultValue) ==
    IF value = Bool(TRUE) \/ value = Bool(FALSE) THEN value
    ELSE IF Str(toLowerCase(String(value))) \in trueValues THEN Bool(TRUE)
    ELSE IF Str(toLowerCase(String(value))) \in falseValues THEN Bool(FALSE)
    ELSE defaultValue

\* getNumber written with `num || defaultValue`: 0 is taken for a failure.
getNumber_falsy(value, defaultValue) ==
    LET num == parseFloat(String(value))
    IN IF isNaN(num) \/ num = Num(0) THEN defaultValue ELSE num

getNumber(value, defaultValue) ==
    LET num == parseFloat(String(value))
    IN IF isNaN(num) THEN defaultValue ELSE num

\* A converter passed by reference: Value.getString, Value.getNumber or
\* Value.getBoolean, named by its function name.
callConverter(converter, value, defaultValue) ==
    CASE converter = "getString" -> getString(value, defaultValue)
      [] converter = "getNumber" -> getNumber(value, defaultValue)
      [] converter = "getBoolean" -> getBoolean(value, defaultValue)

\* Array.prototype.map(converter): the converter is called with the element
\* and its index, so the index arrives as the converter's defaultValue.
mapConverter(tokens, converter) ==
    [i \in 1..Len(tokens) |-> callConverter(converter, Str(tokens[i]), Num(i - 1))]

getArray(value, converter, defaultValue) ==
    IF isUndefinedOrEmpty(Str(String(value)))
    THEN IF Truthy(defaultValue) THEN defaultValue ELSE Arr(<<>>)
    ELSE LET result == mapConverter(split(String(value)), converter)
         IN IF \E i \in 1..Len(result) : isUndefinedOrEmpty(Str(String(result[i])))
            THEN IF Truthy(defaultValue) THEN defaultValue ELSE Arr(<<>>)
            ELSE Arr(result)

\* ------------------------------------------------------------ decorators.ts
ScalarTypes == {"string", "number", "boolean"}

ListTypes == {"string[]", "number[]", "boolean[]"}

TypeNames == ScalarTypes \cup ListTypes

\* typeInfo[type].convert
convert(type, value, defaultValue) ==
    CASE type = "string" -> getString(value, defaultValue)
      [] type = "number" -> getNumber(value, defaultValue)
      [] type = "boolean" -> getBoolean(value, defaultValue)
      [] type = "string[]" -> getArray(value, "getString", defaultValue)
      [] type = "number[]" -> getArray(value, "getNumber", defaultValue)
      [] type = "boolean[]" -> getArray(value, "getBoolean", defaultValue)

\* isValid that takes the empty list for the sign of a failed conversion.
isValid_listNonEmpty(type, value) ==
    CASE type = "string" -> ~isUndefinedOrEmpty(value)
      [] type = "number" -> ~isNaN(parseFloat(String(value)))
      [] type = "boolean" -> isBoolean(value)
      [] type = "string[]" -> getArray(value, "getString", Undefined) # Arr(<<>>)
      [] type = "number[]" -> getArray(value, "getNumber", Undefined) # Arr(<<>>)
      [] type = "boolean[]" -> getArray(value, "getBoolean", Undefined) # Arr(<<>>)

\* typeInfo[type].isValid
isValid(type, value) ==
    CASE type = "string" -> ~isUndefinedOrEmpty(value)
      [] type = "number" -> ~isNaN(parseFloat(String(value)))
      [] type = "boolean" -> isBoolean(value)
      [] type = "string[]" -> getArray(value, "getString", Undefined) # Undefined
      [] type = "number[]" -> getArray(value, "getNumber", Undefined) # Undefined
      [] type = "boolean[]" -> getArray(value, "getBoolean", Undefined) # Undefined

\* ------------------------------------------------------------ state
VARIABLES
    \* Conversion under test: the type, the raw value, the default handed to
    \* convert, the operation applied ("none" before it) and its result.
    type, raw, dflt, op, result,
    \* AnySource.sources: a sequence of source tables, and the last query.
    sources, query,
    \* EnvironmentVariables.variables: the table of the source the bound
    \* properties read.
    variables,
    \* One bound property: its descriptor (IPropertyDescriptor), the closure
    \* variable defaultValue of createPropertyDescriptor and the last
    \* operation on the property.
    settings, defaultValue, last,
    \* The settings tree: the declarations stored for each class, and the
    \* instances; last also records the last call on an instance.
    classes, nodes,
    \* One CommandLineArguments object (argv, positional, variables) and the
    \* last getValue call on it.
    cli, answer,
    \* What the program holds outside the library's objects: the classes it
    \* has defined, and the objects it passed to the constructors of the
    \* sources.
    types, input

valueVars == <<type, raw, dflt, op, result>>

anyVars == <<sources, query>>

propVars == <<settings, defaultValue, last>>

treeVars == <<classes, nodes>>

cliVars == <<cli, answer>>

outerVars == <<types, input>>

vars == <<type, raw, dflt, op, result, sources, query, variables,
          settings, defaultValue, last, classes, nodes, cli, answer,
          types, input>>

None == [k |-> "none"]

\* The variables a specification does not use stay at these values.
ValueIdle ==
    /\ type = "string" /\ raw = Undefined /\ dflt = Undefined
    /\ op = "idle" /\ result = None

AnyIdle == sources = <<>> /\ query = None

PropIdle == settings = None /\ defaultValue = Undefined /\ last = None

TreeIdle == classes = <<>> /\ nodes = <<>>

CliIdle == cli = None /\ answer = None

OuterIdle == types = <<>> /\ input = None

\* ------------------------------------------------------------ texts
T_3000 == <<"3", "0", "0", "0">>

RECURSIVE JoinTokens(_)
JoinTokens(ts) ==
    IF Len(ts) = 1 THEN ts[1] ELSE ts[1] \o <<",">> \o JoinTokens(Tail(ts))

Tokens == {<<"1">>, <<"2", "0">>, <<"x">>, <<>>, <<" ", "3">>}

ListTexts ==
    {JoinTokens(ts) : ts \in UNION {[1..n -> Tokens] : n \in 1..MaxTokens}}

ScalarTexts ==
    {<<>>, <<" ">>, <<"x">>, <<"0">>, <<"1">>, T_3000, T_true, T_false,
     <<"T", "R", "U", "E">>, <<"1", "e", "3">>, <<"1", "2", "x">>,
     <<" ", "7">>, T_null}

RawValues ==
    {Undefined, Null, Bool(TRUE), Bool(FALSE), Num(0), Num(1), Num(7),
     Arr(<<Num(1), Num(2)>>), Arr(<<Str(<<"a">>), Null>>)}
        \cup {Str(t) : t \in ScalarTexts \cup ListTexts}

ScalarDefaults ==
    {Undefined, Null, Num(0), Num(8080), Str(<<"d">>), Bool(TRUE), Bool(FALSE)}

ListDefaults ==
    {Undefined, Null, Arr(<<>>), Arr(<<Num(9)>>),
     Arr(<<Str(<<"a">>), Str(<<"b">>)>>)}

DefaultsOf(t) == IF t \in ScalarTypes THEN ScalarDefaults ELSE ListDefaults

\* ------------------------------------------------------------ conversions
\* A call type.convert(raw, dflt) of typeInfo.
Convert ==
    /\ op = "none"
    /\ op' = "convert"
    /\ result' = convert(type, raw, dflt)
    /\ UNCHANGED <<type, raw, dflt, anyVars, variables, propVars, treeVars, cliVars, outerVars>>

\* A call type.isValid(raw) of typeInfo.
IsValid ==
    /\ op = "none"
    /\ op' = "isValid"
    /\ result' = Bool(isValid(type, raw))
    /\ UNCHANGED <<type, raw, dflt, anyVars, variables, propVars, treeVars, cliVars, outerVars>>

InitValue ==
    /\ type \in TypeNames
    /\ raw \in RawValues
    /\ dflt \in DefaultsOf(type)
    /\ op = "none"
    /\ result = None
    /\ AnyIdle /\ variables = <<>> /\ PropIdle /\ TreeIdle /\ CliIdle /\ OuterIdle

NextValue == Convert \/ IsValid

SpecValue == InitValue /\ [][NextValue]_vars

\* ------------------------------------------------------------ sources
\* A source table is a function from the names it holds to their values.
\* EnvironmentVariables.getValue: a name the table does not hold reads as
\* undefined.
getValue(table, name) ==
    IF name \in DOMAIN table THEN table[name] ELSE Undefined

\* EnvironmentVariables.setValue
setValue(table, name, value) ==
    [n \in DOMAIN table \cup {name} |-> IF n = name THEN value ELSE table[n]]

\* EnvironmentVariables.unsetValue
unsetValue(table, name) == [n \in DOMAIN table \ {name} |-> table[n]]

\* AnySource.getValue that answers with its first source, present or not.
AnySource_getValue_firstOnly(srcs, name) ==
    IF srcs = <<>> THEN Null ELSE getValue(Head(srcs), name)

\* AnySource.getValue
RECURSIVE AnySource_getValue(_, _)
AnySource_getValue(srcs, name) ==
    IF srcs = <<>> THEN Null
    ELSE LET value == getValue(Head(srcs), name)
         IN IF ~isUndefined(value) THEN value
            ELSE AnySource_getValue(Tail(srcs), name)

AnyKeys == {"X", "Y"}

AnyValues == {Null, Str(<<"5">>), Str(<<"7">>)}

\* setValue on the i-th constituent source.
AnySetValue ==
    \E i \in 1..Len(sources), name \in AnyKeys, value \in AnyValues :
        /\ sources' = [sources EXCEPT ![i] = setValue(@, name, value)]
        /\ query' = None
        /\ UNCHANGED <<valueVars, variables, propVars, treeVars, cliVars, outerVars>>

\* unsetValue on the i-th constituent source.
AnyUnsetValue ==
    \E i \in 1..Len(sources), name \in AnyKeys :
        /\ name \in DOMAIN sources[i]
        /\ sources' = [sources EXCEPT ![i] = unsetValue(@, name)]
        /\ query' = None
        /\ UNCHANGED <<valueVars, variables, propVars, treeVars, cliVars, outerVars>>

\* A call getValue(name) on the composite source.
AnyGetValue ==
    \E name \in AnyKeys :
        /\ query' = [k |-> "getValue", name |-> name,
                     value |-> AnySource_getValue(sources, name)]
        /\ UNCHANGED <<sources, valueVars, variables, propVars, treeVars, cliVars, outerVars>>

InitAny ==
    /\ \E n \in 1..MaxSources : sources = [i \in 1..n |-> <<>>]
    /\ query = None
    /\ ValueIdle /\ variables = <<>> /\ PropIdle /\ TreeIdle /\ CliIdle /\ OuterIdle

NextAny == AnySetValue \/ AnyUnsetValue \/ AnyGetValue

SpecAny == InitAny /\ [][NextAny]_vars

\* ------------------------------------------------------------ commandLine.ts
\* Largest number of tokens of a generated command line.
MaxArgs == 3

\* String.prototype.startsWith("-")
startsWithDash(token) == token # <<>> /\ token[1] = "-"

RECURSIVE parseCommandLine(_, _)

\* parseCommandLine that shifts the token after a flag whether or not it
\* takes it as the value.
parseCommandLine_shifting(args, object) ==
    IF args = <<>> THEN object
    ELSE LET arg == Head(args)
             rest == Tail(args)
         IN IF ~startsWithDash(arg)
            THEN parseCommandLine(rest,
                     [object EXCEPT !.positional = Append(@, arg),
                                    !.roles = Append(@, "positional")])
            ELSE IF rest = <<>> \/ rest[1] = <<>> \/ startsWithDash(rest[1])
            THEN parseCommandLine(IF rest = <<>> THEN rest ELSE Tail(rest),
                     [object EXCEPT !.variables = setValue(@, arg, Null),
                                    !.roles = Append(@, "flag")])
            ELSE parseCommandLine(Tail(rest),
                     [object EXCEPT !.variables = setValue(@, arg, Str(rest[1])),
                                    !.roles = @ \o <<"flag", "value">>])

\* The loop of parseCommandLine over the tokens left, on the object built so
\* far.  !args[0] holds of a missing token and of the empty token.  roles
\* keeps, for every token shifted off args, what the loop took it for: a
\* positional, a flag, or the value of the flag before it.
parseCommandLine(args, object) ==
    IF args = <<>> THEN object
    ELSE LET arg == Head(args)
             rest == Tail(args)
         IN IF ~startsWithDash(arg)
            THEN parseCommandLine(rest,
                     [object EXCEPT !.positional = Append(@, arg),
                                    !.roles = Append(@, "positional")])
            ELSE IF rest = <<>> \/ rest[1] = <<>> \/ startsWithDash(rest[1])
            THEN parseCommandLine(rest,
                     [object EXCEPT !.variables = setValue(@, arg, Null),
                                    !.roles = Append(@, "flag")])
            ELSE parseCommandLine(Tail(rest),
                     [object EXCEPT !.variables = setValue(@, arg, Str(rest[1])),
                                    !.roles = @ \o <<"flag", "value">>])

\* new CommandLineArguments(argv)
CommandLineArguments(argv) ==
    parseCommandLine(argv, [argv |-> argv, positional |-> <<>>, variables |-> <<>>,
                            roles |-> <<>>])

\* CommandLineArguments.getValue: a number is an index into positional, any
\* other name a key of variables (the text of the name, when it is no text).
CommandLineArguments_getValue(object, name) ==
    IF name.k = "number"
    THEN IF name.n + 1 \in DOMAIN object.positional
         THEN Str(object.positional[name.n + 1]) ELSE Undefined
    ELSE getValue(object.variables, String(name))

CliTokens == {<<"-", "p">>, <<"-", "v">>, <<"9">>, <<"x">>, <<>>}

CliNames == {Str(t) : t \in {<<"-", "p">>, <<"-", "v">>, <<"x">>}}
            \cup {Num(i) : i \in 0..MaxArgs - 1}

\* A call getValue(name) on the constructed object.
CliGetValue ==
    \E name \in CliNames :
        /\ answer' = [k |-> "getValue", name |-> name,
                      value |-> CommandLineArguments_getValue(cli, name)]
        /\ UNCHANGED <<cli, valueVars, anyVars, variables, propVars, treeVars, outerVars>>

InitCli ==
    /\ \E n \in 0..MaxArgs : \E argv \in [1..n -> CliTokens] :
          cli = CommandLineArguments(argv)
    /\ answer = None
    /\ ValueIdle /\ AnyIdle /\ variables = <<>> /\ PropIdle /\ TreeIdle /\ OuterIdle

NextCli == CliGetValue

SpecCli == InitCli /\ [][NextCli]_vars

\* ------------------------------------------------------------ binder
\* An IPropertyDescriptor.
Descriptor(name, t, default, optional, secret) ==
    [name |-> name, type |-> t, default |-> default,
     optional |-> optional, secret |-> secret]

\* The decorator factory of a type applied to its argument specs: a bare
\* name, a bare positional index, or a descriptor object.  A bare name or
\* index makes the declaration optional; what the argument leaves out reads
\* as undefined (secret as not set).
createDecoratorFactoryForType(t, specs) ==
    IF specs.k = "string"
    THEN Descriptor(specs.s, t, Undefined, TRUE, FALSE)
    ELSE IF specs.k = "number"
    THEN [name |-> Undefined, index |-> specs, type |-> t, default |-> Undefined,
          optional |-> TRUE, secret |-> FALSE]
    ELSE [specs.object EXCEPT !.type = t]

\* The argument of a decorator that is a descriptor object.
Specs(object) == [k |-> "object", object |-> object]

\* createPropertyDescriptor, lines 288-290: the first value of the closure
\* variable defaultValue.
createPropertyDescriptor(descriptor) ==
    IF isUndefined(descriptor.default) THEN Undefined
    ELSE convert(descriptor.type, Str(String(descriptor.default)), Undefined)

\* A getter that converts with the static default of the descriptor.
get_static(descriptor, table, current) ==
    convert(descriptor.type, getValue(table, descriptor.name),
            createPropertyDescriptor(descriptor))

\* A getter that lets a present default win over the source.
get_defaultFirst(descriptor, table, current) ==
    IF ~isUndefined(current) THEN current
    ELSE convert(descriptor.type, getValue(table, descriptor.name), current)

\* createPropertyDescriptor.get: current is the closure's defaultValue.
get(descriptor, table, current) ==
    convert(descriptor.type, getValue(table, descriptor.name), current)

\* A setter without the precedence test.
set_always(descriptor, current, value) ==
    convert(descriptor.type, value, Undefined)

\* createPropertyDescriptor.set: the new value of the closure's defaultValue.
set(descriptor, current, value) ==
    IF isUndefined(descriptor.default) \/ ~isUndefined(value)
    THEN convert(descriptor.type, value, Undefined)
    ELSE current

PropKeys == {"PORT", "HOST"}

\* The values setValue stores in the property's source.
SourceValues(name) ==
    IF name = "PORT"
    THEN {Null} \cup {Str(t) : t \in {T_3000, <<"x">>, <<>>, <<" ">>, T_true,
                                      <<"1", ",", "x">>}}
    ELSE {Str(<<"x">>)}

\* The values assigned to the property.
WrittenValues ==
    {Undefined, Null, Num(80), Str(<<"x">>), Bool(TRUE), Arr(<<Str(<<"a">>)>>)}

StaticDefaults(t) ==
    {Undefined, Null} \cup
        CASE t = "string" -> {Str(<<"d">>)}
          [] t = "number" -> {Num(8080)}
          [] t = "boolean" -> {Bool(FALSE)}
          [] t = "string[]" -> {Arr(<<Str(<<"a">>), Str(<<"b">>)>>)}
          [] t = "number[]" -> {Arr(<<Num(9)>>)}
          [] t = "boolean[]" -> {Arr(<<Bool(TRUE), Bool(FALSE)>>)}

SetValue ==
    \E name \in PropKeys : \E value \in SourceValues(name) :
        /\ variables' = setValue(variables, name, value)
        /\ last' = [k |-> "setValue"]
        /\ UNCHANGED <<settings, defaultValue, valueVars, anyVars, treeVars, cliVars, outerVars>>

UnsetValue ==
    \E name \in PropKeys :
        /\ name \in DOMAIN variables
        /\ variables' = unsetValue(variables, name)
        /\ last' = [k |-> "unsetValue"]
        /\ UNCHANGED <<settings, defaultValue, valueVars, anyVars, treeVars, cliVars, outerVars>>

\* An assignment to the bound property.
Write ==
    \E value \in WrittenValues :
        /\ defaultValue' = set(settings, defaultValue, value)
        /\ last' = [k |-> "write", value |-> value, before |-> defaultValue]
        /\ UNCHANGED <<settings, variables, valueVars, anyVars, treeVars, cliVars, outerVars>>

\* A read of the bound property.
Read ==
    /\ last' = [k |-> "read", value |-> get(settings, variables, defaultValue)]
    /\ UNCHANGED <<settings, defaultValue, variables, valueVars, anyVars, treeVars, cliVars, outerVars>>

Init ==
    /\ \E t \in TypeNames : \E d \in StaticDefaults(t) :
          settings = Descriptor("PORT", t, d, isUndefined(d), FALSE)
    /\ defaultValue = createPropertyDescriptor(settings)
    /\ last = None
    /\ variables = <<>>
    /\ ValueIdle /\ AnyIdle /\ TreeIdle /\ CliIdle /\ OuterIdle

Next == SetValue \/ UnsetValue \/ Write \/ Read

Spec == Init /\ [][Next]_vars

\* ------------------------------------------------------------ decoratorTest
\* decoratorTest: the source holds configValue for TEST; class X declares
\* { name, default } and class Y declares the bare name and assigns the
\* default in its field initializer; the values new X() and new Y() read.
decoratorTest(t, default, configValue) ==
    LET table == setValue(<<>>, "TEST", configValue)
        X == createDecoratorFactoryForType(t,
                 Specs(Descriptor("TEST", t, default, FALSE, FALSE)))
        Y == createDecoratorFactoryForType(t, Str("TEST"))
    IN [x |-> get(X, table, createPropertyDescriptor(X)),
        y |-> get(Y, table, set(Y, createPropertyDescriptor(Y), default))]

\* A run of decoratorTest on the type, default and source value drawn.
DecoratorTest ==
    /\ op = "none"
    /\ op' = "decoratorTest"
    /\ result' = decoratorTest(type, dflt, raw)
    /\ UNCHANGED <<type, raw, dflt, anyVars, variables, propVars, treeVars, cliVars, outerVars>>

InitDefault == InitValue

NextDefault == DecoratorTest

SpecDefault == InitDefault /\ [][NextDefault]_vars

\* ------------------------------------------------------------ argv binder
\* createPropertyDescriptor.get of a property whose source is a
\* CommandLineArguments object: the getter looks up the descriptor's name.
\* const { name: varname } = settings: the name as a value; a declaration
\* by index has none.
varname(descriptor) ==
    IF "index" \in DOMAIN descriptor THEN Undefined ELSE Str(descriptor.name)

get_argv(descriptor, object, current) ==
    convert(descriptor.type,
            CommandLineArguments_getValue(object, varname(descriptor)), current)

\* The arguments of the argv decorators: a flag, a positional index.
ArgvSpecs == {Str(<<"-", "p">>)} \cup {Num(i) : i \in 0..1}

\* A read of the property bound to the command line.
ArgvRead ==
    /\ last' = [k |-> "read", value |-> get_argv(settings, cli, defaultValue)]
    /\ UNCHANGED <<settings, defaultValue, cli, answer, variables, valueVars,
                   anyVars, treeVars, outerVars>>

\* An assignment to the property bound to the command line.
ArgvWrite ==
    \E value \in {Str(<<"d">>), Num(80)} :
        /\ defaultValue' = set(settings, defaultValue, value)
        /\ last' = [k |-> "write", value |-> value, before |-> defaultValue]
        /\ UNCHANGED <<settings, cli, answer, variables, valueVars, anyVars, treeVars, outerVars>>

\* A property declared with argv.scalar.<type>(specs) on the command line
\* argv.
InitArgv ==
    /\ \E n \in 0..MaxArgs : \E argv \in [1..n -> CliTokens] :
          cli = CommandLineArguments(argv)
    /\ answer = None
    /\ \E t \in {"string", "number"} : \E specs \in ArgvSpecs :
          settings = createDecoratorFactoryForType(t, specs)
    /\ defaultValue = createPropertyDescriptor(settings)
    /\ last = None
    /\ variables = <<>>
    /\ ValueIdle /\ AnyIdle /\ TreeIdle /\ OuterIdle

NextArgv == ArgvRead \/ ArgvWrite

SpecArgv == InitArgv /\ [][NextArgv]_vars

\* ------------------------------------------------------------ settings.ts
\* A JavaScript object with string keys is a sequence of entries
\* [key, value], in the order in which the keys were first set.
KeysOf(object) == {object[i].key : i \in DOMAIN object}

ValueAt(object, key) ==
    object[CHOOSE i \in DOMAIN object : object[i].key = key].value

\* object[key] = value
Put(object, key, value) ==
    IF key \in KeysOf(object)
    THEN [i \in DOMAIN object |->
             IF object[i].key = key THEN [key |-> key, value |-> value]
             ELSE object[i]]
    ELSE Append(object, [key |-> key, value |-> value])

\* Object.assign(target, from)
RECURSIVE ObjectAssign(_, _)
ObjectAssign(target, from) ==
    IF from = <<>> THEN target
    ELSE ObjectAssign(Put(target, Head(from).key, Head(from).value), Tail(from))

\* getParentClass: the class a class extends; Settings, which extends no
\* named class, is its own answer.
getParentClass(class) == classes[class].parent

\* The prototype chain of an instance of a class, the class first.
RECURSIVE PrototypeChain(_)
PrototypeChain(class) ==
    IF getParentClass(class) = class THEN <<class>>
    ELSE <<class>> \o PrototypeChain(getParentClass(class))

\* Reflect.getMetadata(storeKey, target) || {} for an instance target of the
\* class targetClass: storeKey is the key "<keyClass>_VARS", which the
\* decorators of keyClass define on the prototype of keyClass; the lookup
\* walks the prototype chain of the target.
getMetadata(keyClass, targetClass) ==
    IF \E i \in DOMAIN PrototypeChain(targetClass) :
           PrototypeChain(targetClass)[i] = keyClass
    THEN classes[keyClass].props
    ELSE <<>>

RECURSIVE extractFrom(_, _, _)

\* extractStoredVariables that stops at the first type.
extractFrom_ownOnly(targetClass, source, merged) ==
    ObjectAssign(merged, getMetadata(source, targetClass))

\* extractStoredVariables, the loop from the type `source` on.
extractFrom(targetClass, source, merged) ==
    LET next == ObjectAssign(merged, getMetadata(source, targetClass))
    IN IF getParentClass(source) = source THEN next
       ELSE extractFrom(targetClass, getParentClass(source), next)

\* Settings.extractStoredVariables(target), target an instance of targetClass.
extractStoredVariables(targetClass) == extractFrom(targetClass, targetClass, <<>>)

\* this[fieldName] of a bound property: the getter installed by
\* assignConfigurationProperty on the instance at construction.
fieldValue(n, fieldName) ==
    get(ValueAt(extractStoredVariables(nodes[n].cls), fieldName), variables,
        nodes[n].defaults[fieldName])

\* { ...fieldSettings, value }
VariableInfo(descriptor, value) ==
    [name |-> descriptor.name, type |-> descriptor.type,
     default |-> descriptor.default, optional |-> descriptor.optional,
     secret |-> descriptor.secret, value |-> value]

RECURSIVE getSettingsLoop(_, _, _)

\* getSettings whose recursive calls get a copy of the visited array.
getSettingsLoop_copied(fields, recursive, walk) ==
    IF fields = <<>> THEN walk
    ELSE LET prop == Head(fields).value
             seen == \E i \in DOMAIN walk.visited : walk.visited[i] = prop
             pushed == Append(walk.visited, prop)
             added == Put(walk.result, Head(fields).key, prop)
             inner == getSettingsLoop(nodes[prop].fields, TRUE,
                                      [result |-> <<>>, visited |-> pushed,
                                       entered |-> Append(walk.entered, prop)])
         IN IF seen THEN getSettingsLoop(Tail(fields), recursive, walk)
            ELSE IF recursive
                 THEN getSettingsLoop(Tail(fields), recursive,
                          [result |-> ObjectAssign(added, inner.result),
                           visited |-> pushed,
                           entered |-> inner.entered])
                 ELSE getSettingsLoop(Tail(fields), recursive,
                          [result |-> added, visited |-> pushed,
                           entered |-> walk.entered])

\* getSettings that skips visited values only in its recursive form.
getSettingsLoop_unguarded(fields, recursive, walk) ==
    IF fields = <<>> THEN walk
    ELSE LET prop == Head(fields).value
             seen == recursive /\ \E i \in DOMAIN walk.visited : walk.visited[i] = prop
             pushed == Append(walk.visited, prop)
             added == Put(walk.result, Head(fields).key, prop)
             inner == getSettingsLoop(nodes[prop].fields, TRUE,
                                      [result |-> <<>>, visited |-> pushed,
                                       entered |-> Append(walk.entered, prop)])
         IN IF seen THEN getSettingsLoop(Tail(fields), recursive, walk)
            ELSE IF recursive
                 THEN getSettingsLoop(Tail(fields), recursive,
                          [result |-> ObjectAssign(added, inner.result),
                           visited |-> inner.visited,
                           entered |-> inner.entered])
                 ELSE getSettingsLoop(Tail(fields), recursive,
                          [result |-> added, visited |-> pushed,
                           entered |-> walk.entered])

\* getSettings, the loop over the remaining own fields; walk holds the result
\* built so far, the visited array, which the recursive calls share, and
\* the nodes the walk has made a recursive call on, in the order of the calls.
getSettingsLoop(fields, recursive, walk) ==
    IF fields = <<>> THEN walk
    ELSE LET prop == Head(fields).value
             seen == \E i \in DOMAIN walk.visited : walk.visited[i] = prop
             pushed == Append(walk.visited, prop)
             added == Put(walk.result, Head(fields).key, prop)
             inner == getSettingsLoop(nodes[prop].fields, TRUE,
                                      [result |-> <<>>, visited |-> pushed,
                                       entered |-> Append(walk.entered, prop)])
         IN IF seen THEN getSettingsLoop(Tail(fields), recursive, walk)
            ELSE IF recursive
                 THEN getSettingsLoop(Tail(fields), recursive,
                          [result |-> ObjectAssign(added, inner.result),
                           visited |-> inner.visited,
                           entered |-> inner.entered])
                 ELSE getSettingsLoop(Tail(fields), recursive,
                          [result |-> added, visited |-> pushed,
                           entered |-> walk.entered])

\* Settings.getSettings(recursive), with the default visited = []: the walk
\* of the whole call.
getSettingsWalk(n, recursive) ==
    getSettingsLoop(nodes[n].fields, recursive,
                    [result |-> <<>>, visited |-> <<>>, entered |-> <<>>])

\* Settings.getSettings(recursive): the mapping returned.
getSettings(n, recursive) == getSettingsWalk(n, recursive).result

\* getVariables, lines 77-81: the node's own variables.
ownVariables(n) ==
    LET envvars == extractStoredVariables(nodes[n].cls)
    IN [i \in DOMAIN envvars |->
           [key |-> envvars[i].key,
            value |-> VariableInfo(envvars[i].value,
                                   fieldValue(n, envvars[i].key))]]

\* The deepest nesting of calls the engine allows: one frame more throws
\* RangeError (Maximum call stack size exceeded).  No walk over a tree of
\* MaxNodes nodes nests that deep.
StackLimit == MaxNodes + 1

\* The outcome of a call that returned value, and of a call that threw.
Returned(value) == [threw |-> FALSE, value |-> value]

Thrown == [threw |-> TRUE, value |-> <<>>]

RECURSIVE getVariablesAt(_, _, _)
RECURSIVE mergeVariables(_, _, _)

\* getVariables, lines 85-87: the loop over getSettings(false), in a call
\* nested depth frames deep.
mergeVariables(nested, merged, depth) ==
    IF nested = <<>> THEN Returned(merged)
    ELSE LET inner == getVariablesAt(Head(nested).value, TRUE, depth + 1)
         IN IF inner.threw THEN Thrown
            ELSE mergeVariables(Tail(nested), ObjectAssign(merged, inner.value), depth)

\* getVariables(recursive) called depth frames deep.
getVariablesAt(n, recursive, depth) ==
    IF depth > StackLimit THEN Thrown
    ELSE IF recursive
         THEN mergeVariables(getSettings(n, FALSE), ownVariables(n), depth)
         ELSE Returned(ownVariables(n))

\* getVariables that leaves the nested nodes out.
getVariables_shallow(n, recursive) == ownVariables(n)

\* Settings.getVariables(recursive): what a call that returns, returns.
getVariables(n, recursive) == getVariablesAt(n, recursive, 0).value

\* The test of line 142 without its `!optional`.
isInvalid_anyField(n, fieldName, info) ==
    ~isValid(info.type, fieldValue(n, fieldName))

\* getInvalidVariables, line 142.
isInvalid(n, fieldName, info) ==
    ~info.optional /\ ~isValid(info.type, fieldValue(n, fieldName))

RECURSIVE getInvalidVariables(_, _)
RECURSIVE mergeInvalid(_, _)
RECURSIVE invalidLoop(_, _, _, _)

\* getInvalidVariables, lines 147-150: the loop over getSettings(true).
mergeInvalid(nested, invalid) ==
    IF nested = <<>> THEN invalid
    ELSE mergeInvalid(Tail(nested),
             ObjectAssign(invalid, getInvalidVariables(Head(nested).value, FALSE)))

\* getInvalidVariables, lines 140-152: the loop over the own variables; the
\* nested nodes are collected inside it, once for each own variable.
invalidLoop(n, envvars, recursive, invalid) ==
    IF envvars = <<>> THEN invalid
    ELSE LET fieldName == Head(envvars).key
             info == Head(envvars).value
             own == IF isInvalid(n, fieldName, info)
                    THEN Put(invalid, fieldName, info) ELSE invalid
         IN invalidLoop(n, Tail(envvars), recursive,
                IF recursive THEN mergeInvalid(getSettings(n, TRUE), own)
                ELSE own)

\* Settings.getInvalidVariables(recursive)
getInvalidVariables(n, recursive) ==
    invalidLoop(n, getVariables(n, FALSE), recursive, <<>>)

\* The text stringify puts for the value of a secret variable.
Placeholder ==
    <<"*", "*", "*", "*", "*", " ", "(", "s", "e", "c", "r", "e", "t", ")">>

\* stringify that renders every value, secret or not.
VariableLine_unmasked(depth, name, info) ==
    [k |-> "variable", depth |-> depth, name |-> name,
     text |-> String(info.value),
     suffix |-> IF info.type # "string" THEN info.type ELSE ""]

\* stringify, lines 203-204: the line of one variable, as its parts: the
\* prefix indent.repeat(depth), the field name, the text after "=" and the
\* type named in the suffix ("" for a string, which has no suffix).
VariableLine(depth, name, info) ==
    [k |-> "variable", depth |-> depth, name |-> name,
     text |-> IF info.secret THEN Placeholder ELSE String(info.value),
     suffix |-> IF info.type # "string" THEN info.type ELSE ""]

\* stringify, line 210: the header of a nested node.
HeaderLine(depth, fieldName) == [k |-> "header", depth |-> depth, name |-> fieldName]

\* The one empty line that pushing the empty text of a nested node with
\* nothing to render leaves in the joined result.
EmptyLine == [k |-> "empty"]

RECURSIVE stringify(_, _)
RECURSIVE stringifyNested(_, _, _)

\* stringify, lines 207-212: the loop over getSettings(false).
stringifyNested(nested, depth, lines) ==
    IF nested = <<>> THEN Returned(lines)
    ELSE LET inner == stringify(Head(nested).value, depth + 1)
         IN IF inner.threw THEN Thrown
            ELSE stringifyNested(Tail(nested), depth,
                     lines \o <<HeaderLine(depth, Head(nested).key)>>
                           \o IF inner.value = <<>> THEN <<EmptyLine>>
                              ELSE inner.value)

\* Settings.stringify(depth): the lines of the joined result; each nested
\* call is one frame deeper, and depth counts them.
stringify(n, depth) ==
    IF depth > StackLimit THEN Thrown
    ELSE LET envvars == getVariables(n, FALSE)
         IN stringifyNested(getSettings(n, FALSE), depth,
                [i \in DOMAIN envvars |->
                    VariableLine(depth, envvars[i].key, envvars[i].value)])

\* ------------------------------------------------------------ trees
ClassNames == <<"Root", "A", "B", "C", "D">>

\* The field of a parent that holds its k-th nested node, when all nodes name
\* their fields alike.
OrdinalFields == <<"child", "other", "third", "fourth">>

\* The field that holds node i, when every field has a name of its own.
OwnFields == <<"root", "settings2", "settings3", "settings4", "settings5">>

\* The declarations a class can make: none, a required string, an optional
\* string, a required string and a required number with a default, a required
\* number.
ClassDecls ==
    { <<>>,
      <<[key |-> "host", value |-> Descriptor("HOST", "string", Undefined, FALSE, FALSE)]>>,
      <<[key |-> "host", value |-> Descriptor("HOST", "string", Undefined, TRUE, FALSE)]>>,
      <<[key |-> "host", value |-> Descriptor("HOST", "string", Undefined, FALSE, FALSE)],
        [key |-> "port", value |-> Descriptor("PORT", "number", Num(8080), FALSE, FALSE)]>>,
      <<[key |-> "port", value |-> Descriptor("PORT", "number", Undefined, FALSE, FALSE)]>> }

TreeSourceValues(name) ==
    IF name = "PORT" THEN {Str(T_3000)} ELSE {Str(<<"x">>)}

\* The nodes nested in node i, in the order of their fields.
RECURSIVE ChildFields(_, _, _, _, _)
ChildFields(i, j, n, par, alike) ==
    IF j > n THEN <<>>
    ELSE IF par[j] = i
         THEN LET k == Cardinality({c \in 2..j : par[c] = i})
              IN <<[key |-> IF alike THEN OrdinalFields[k] ELSE OwnFields[j],
                    value |-> j]>> \o ChildFields(i, j + 1, n, par, alike)
         ELSE ChildFields(i, j + 1, n, par, alike)

\* new <class of node i>(): the constructor binds every stored variable with
\* a default of its own (assignConfigurationProperties), then the field
\* initializers set the nested nodes.
NewNode(i, n, par, alike, decl) ==
    [cls |-> ClassNames[i],
     fields |-> ChildFields(i, 2, n, par, alike),
     defaults |-> [f \in KeysOf(decl[i]) |->
                      createPropertyDescriptor(ValueAt(decl[i], f))]]

\* A tree of at most MaxNodes nodes, each node of a class of its own that
\* makes one of the given declarations, with nothing set in the source.
TreeOf(declarations) ==
    /\ \E n \in 1..MaxNodes :
       \E par \in [2..n -> 1..n], alike \in BOOLEAN, decl \in [1..n -> declarations] :
          /\ \A j \in 2..n : par[j] < j
          /\ \A j \in 2..n : Cardinality({c \in 2..j : par[c] = par[j]}) <= Len(OrdinalFields)
          /\ classes = [c \in {ClassNames[i] : i \in 1..n} \cup {"Settings"} |->
                          IF c = "Settings" THEN [parent |-> "Settings", props |-> <<>>]
                          ELSE [parent |-> "Settings",
                                props |-> decl[CHOOSE i \in 1..n : ClassNames[i] = c]]]
          /\ nodes = [i \in 1..n |-> NewNode(i, n, par, alike, decl)]
    /\ variables = <<>>
    /\ last = None
    /\ settings = None /\ defaultValue = Undefined
    /\ ValueIdle /\ AnyIdle /\ CliIdle /\ OuterIdle

InitTree == TreeOf(ClassDecls)

TreeSetValue ==
    \E name \in PropKeys : \E value \in TreeSourceValues(name) :
        /\ variables' = setValue(variables, name, value)
        /\ last' = [k |-> "setValue"]
        /\ UNCHANGED <<settings, defaultValue, valueVars, anyVars, treeVars, cliVars, outerVars>>

TreeUnsetValue ==
    \E name \in PropKeys :
        /\ name \in DOMAIN variables
        /\ variables' = unsetValue(variables, name)
        /\ last' = [k |-> "unsetValue"]
        /\ UNCHANGED <<settings, defaultValue, valueVars, anyVars, treeVars, cliVars, outerVars>>

\* The calls are made on the root, node 1: every node of a tree is the root
\* of the tree below it, and InitTree draws that tree too.
\* A call root.getVariables(recursive).
GetVariables ==
    \E recursive \in BOOLEAN :
        /\ last' = [k |-> "getVariables", node |-> 1, recursive |-> recursive,
                    value |-> getVariables(1, recursive),
                    threw |-> getVariablesAt(1, recursive, 0).threw]
        /\ UNCHANGED <<variables, settings, defaultValue, valueVars, anyVars, treeVars, cliVars, outerVars>>

\* A call root.getInvalidVariables(recursive).
GetInvalidVariables ==
    \E recursive \in BOOLEAN :
        /\ last' = [k |-> "getInvalidVariables", node |-> 1,
                    recursive |-> recursive,
                    value |-> getInvalidVariables(1, recursive)]
        /\ UNCHANGED <<variables, settings, defaultValue, valueVars, anyVars, treeVars, cliVars, outerVars>>

NextTree == TreeSetValue \/ TreeUnsetValue \/ GetVariables \/ GetInvalidVariables

SpecTree == InitTree /\ [][NextTree]_vars

\* ------------------------------------------------------------ rendering
\* Declarations with secret variables: none, a secret string, a plain string,
\* a secret string and a plain number, a secret number with a default.
RenderDecls ==
    { <<>>,
      <<[key |-> "host", value |-> Descriptor("HOST", "string", Undefined, FALSE, TRUE)]>>,
      <<[key |-> "host", value |-> Descriptor("HOST", "string", Undefined, FALSE, FALSE)]>>,
      <<[key |-> "host", value |-> Descriptor("HOST", "string", Undefined, FALSE, TRUE)],
        [key |-> "port", value |-> Descriptor("PORT", "number", Num(8080), FALSE, FALSE)]>>,
      <<[key |-> "port", value |-> Descriptor("PORT", "number", Num(8080), TRUE, TRUE)]>> }

\* setValue and unsetValue on the source, between calls on the root; last
\* keeps the record of the latest call.
RenderSetValue ==
    \E name \in PropKeys : \E value \in TreeSourceValues(name) :
        /\ variables' = setValue(variables, name, value)
        /\ UNCHANGED <<propVars, valueVars, anyVars, treeVars, cliVars, outerVars>>

RenderUnsetValue ==
    \E name \in PropKeys :
        /\ name \in DOMAIN variables
        /\ variables' = unsetValue(variables, name)
        /\ UNCHANGED <<propVars, valueVars, anyVars, treeVars, cliVars, outerVars>>

\* A call root.stringify(); the record keeps the source the call read.
Stringify ==
    /\ last' = [k |-> "stringify", node |-> 1, table |-> variables,
                outcome |-> stringify(1, 0)]
    /\ UNCHANGED <<variables, settings, defaultValue, valueVars, anyVars, treeVars, cliVars, outerVars>>

InitRender == TreeOf(RenderDecls)

NextRender == RenderSetValue \/ RenderUnsetValue \/ Stringify

SpecRender == InitRender /\ [][NextRender]_vars

\* ------------------------------------------------------------ inheritance
\* Largest number of classes between an instance's class and Settings.
MaxChain == 3

\* verify, lines 172-182: the report built from the collected variables and
\* the invalid ones.
verifyReport(all, missing) ==
    [variables |-> all, missing |-> missing,
     count |-> [variables |-> Len(all),
                optional |-> Cardinality({i \in DOMAIN all : all[i].value.optional}),
                secret |-> Cardinality({i \in DOMAIN all : all[i].value.secret}),
                missing |-> Len(missing)]]

\* verify after its call of getVariables(true) ended with the outcome walk.
verifyAfter(n, walk) ==
    IF walk.threw THEN Thrown
    ELSE Returned(verifyReport(walk.value, getInvalidVariables(n, TRUE)))

\* Settings.verify()
verify(n) == verifyAfter(n, getVariablesAt(n, TRUE, 0))

\* The declarations of one class of a chain: none; host by its bare name; a
\* required host; a required port with a default; host by its bare name and
\* a required port.
ChainDecls ==
    { <<>>,
      <<[key |-> "host", value |-> createDecoratorFactoryForType("string", Str("HOST"))]>>,
      <<[key |-> "host", value |->
            createDecoratorFactoryForType("string",
                Specs(Descriptor("HOST", "string", Undefined, FALSE, FALSE)))]>>,
      <<[key |-> "port", value |->
            createDecoratorFactoryForType("number",
                Specs(Descriptor("PORT", "number", Num(8080), FALSE, FALSE)))]>>,
      <<[key |-> "host", value |-> createDecoratorFactoryForType("string", Str("HOST"))],
        [key |-> "port", value |->
            createDecoratorFactoryForType("number",
                Specs(Descriptor("PORT", "number", Undefined, FALSE, FALSE)))]>> }

\* new <class>(): assignConfigurationProperties binds every variable that
\* extractStoredVariables finds for the instance, each with a default of its
\* own.
NewInstance(class) ==
    [cls |-> class,
     fields |-> <<>>,
     defaults |-> [f \in KeysOf(extractStoredVariables(class)) |->
                      createPropertyDescriptor(
                          ValueAt(extractStoredVariables(class), f))]]

\* A call Settings.extractStoredVariables(root).
ExtractStoredVariables ==
    /\ last' = [k |-> "extractStoredVariables", node |-> 1,
                value |-> extractStoredVariables(nodes[1].cls)]
    /\ UNCHANGED <<variables, settings, defaultValue, valueVars, anyVars, treeVars, cliVars, outerVars>>

\* A call root.verify().
Verify ==
    /\ last' = [k |-> "verify", node |-> 1, outcome |-> verify(1)]
    /\ UNCHANGED <<variables, settings, defaultValue, valueVars, anyVars, treeVars, cliVars, outerVars>>

\* One instance of the class Root, which extends A, which extends B, ... up
\* to Settings; every class of the chain makes its own declarations.
InitClass ==
    /\ \E n \in 1..MaxChain : \E decl \in [1..n -> ChainDecls] :
          classes = [c \in {ClassNames[i] : i \in 1..n} \cup {"Settings"} |->
                        IF c = "Settings" THEN [parent |-> "Settings", props |-> <<>>]
                        ELSE LET i == CHOOSE j \in 1..n : ClassNames[j] = c
                             IN [parent |-> IF i = n THEN "Settings" ELSE ClassNames[i + 1],
                                 props |-> decl[i]]]
    /\ nodes = <<NewInstance("Root")>>
    /\ variables = <<>>
    /\ last = None
    /\ settings = None /\ defaultValue = Undefined
    /\ ValueIdle /\ AnyIdle /\ CliIdle /\ OuterIdle

NextClass ==
    \/ TreeSetValue \/ TreeUnsetValue \/ GetVariables \/ GetInvalidVariables
    \/ ExtractStoredVariables \/ Verify

SpecClass == InitClass /\ [][NextClass]_vars

\* ------------------------------------------------------------ reports
\* Declarations with required, optional and secret variables: none, a
\* required string, an optional string, a secret string and a number with a
\* default, an optional secret number.
VerifyDecls ==
    { <<>>,
      <<[key |-> "host", value |-> Descriptor("HOST", "string", Undefined, FALSE, FALSE)]>>,
      <<[key |-> "host", value |-> Descriptor("HOST", "string", Undefined, TRUE, FALSE)]>>,
      <<[key |-> "host", value |-> Descriptor("HOST", "string", Undefined, FALSE, TRUE)],
        [key |-> "port", value |-> Descriptor("PORT", "number", Num(8080), FALSE, FALSE)]>>,
      <<[key |-> "port", value |-> Descriptor("PORT", "number", Undefined, TRUE, TRUE)]>> }

InitVerify == TreeOf(VerifyDecls)

NextVerify == TreeSetValue \/ TreeUnsetValue \/ Verify

SpecVerify == InitVerify /\ [][NextVerify]_vars

\* ------------------------------------------------------------ lists
\* Declarations of required list-typed variables: none, a list of strings, a
\* list of numbers with a default, a list of booleans, a list of numbers.
ListDecls ==
    { <<>>,
      <<[key |-> "host", value |-> Descriptor("HOST", "string[]", Undefined, FALSE, FALSE)]>>,
      <<[key |-> "host", value |->
            Descriptor("HOST", "number[]", Arr(<<Num(9)>>), FALSE, FALSE)]>>,
      <<[key |-> "host", value |-> Descriptor("HOST", "boolean[]", Undefined, FALSE, FALSE)]>>,
      <<[key |-> "host", value |-> Descriptor("HOST", "number[]", Undefined, FALSE, FALSE)]>> }

\* The texts setValue stores for a list: blank, one token, tokens of which
\* one is no number, separators only, numbers.
ListSourceValues ==
    {Str(t) : t \in {<<>>, <<"x">>, <<"1", ",", "x">>, <<",">>, <<"1", ",", "2">>}}

\* setValue on the key every declared list reads.
ListSetValue ==
    \E value \in ListSourceValues :
        /\ variables' = setValue(variables, "HOST", value)
        /\ last' = [k |-> "setValue"]
        /\ UNCHANGED <<settings, defaultValue, valueVars, anyVars, treeVars, cliVars, outerVars>>

InitList == TreeOf(ListDecls)

NextList == ListSetValue \/ TreeUnsetValue \/ GetInvalidVariables

SpecList == InitList /\ [][NextList]_vars

\* ------------------------------------------------------------ instances
\* Largest number of instances made of one class.
MaxInstances == 2

\* createConfigurationProperty on the prototype of a class that declares the
\* field: the closure bound on the prototype, which exists when the class
\* does not derive from Settings (target instanceof Settings is false).
createConfigurationProperty(derived, descriptor) ==
    IF ~derived THEN [bound |-> TRUE, defaultValue |-> createPropertyDescriptor(descriptor)]
    ELSE [bound |-> FALSE]

\* new X(): an instance of a class derived from Settings gets a property of
\* its own from the constructor; an instance of a plain class has none and
\* reaches the accessor of the prototype.
NewX(derived, descriptor) ==
    [cls |-> "X", fields |-> <<>>,
     defaults |-> IF derived
                  THEN [f \in {"value"} |-> createPropertyDescriptor(descriptor)]
                  ELSE <<>>]

\* The closure variable that instance i's field resolves to.
closureOf(i) ==
    IF "value" \in DOMAIN nodes[i].defaults THEN nodes[i].defaults["value"]
    ELSE defaultValue.defaultValue

\* instance.value
readOf(i) == get(settings, variables, closureOf(i))

ShareSetValue ==
    \E value \in {Str(T_3000), Str(<<>>)} :
        /\ variables' = setValue(variables, "PORT", value)
        /\ last' = [k |-> "setValue"]
        /\ UNCHANGED <<settings, defaultValue, valueVars, anyVars, treeVars, cliVars, outerVars>>

ShareUnsetValue ==
    /\ "PORT" \in DOMAIN variables
    /\ variables' = unsetValue(variables, "PORT")
    /\ last' = [k |-> "unsetValue"]
    /\ UNCHANGED <<settings, defaultValue, valueVars, anyVars, treeVars, cliVars, outerVars>>

\* instance.value = value, on instance i; the record keeps what every
\* instance read before the assignment.
ShareWrite ==
    \E i \in DOMAIN nodes : \E value \in {Undefined, Num(80), Str(<<"x">>)} :
        /\ IF "value" \in DOMAIN nodes[i].defaults
           THEN /\ nodes' = [nodes EXCEPT ![i].defaults["value"] =
                                 set(settings, @, value)]
                /\ UNCHANGED defaultValue
           ELSE /\ defaultValue' = [defaultValue EXCEPT !.defaultValue =
                                        set(settings, @, value)]
                /\ UNCHANGED nodes
        /\ last' = [k |-> "write", node |-> i, value |-> value,
                    before |-> [j \in DOMAIN nodes |-> readOf(j)]]
        /\ UNCHANGED <<settings, variables, classes, valueVars, anyVars, cliVars, outerVars>>

\* A read of instance.value, on instance i.
ShareRead ==
    \E i \in DOMAIN nodes :
        /\ last' = [k |-> "read", node |-> i, value |-> readOf(i)]
        /\ UNCHANGED <<settings, defaultValue, variables, valueVars, anyVars,
                       treeVars, cliVars, outerVars>>

\* Instances of one class X that declares one field, value; X derives from
\* Settings or is a plain class.
InitShare ==
    /\ \E derived \in BOOLEAN, t \in {"number", "string[]"} :
       \E d \in StaticDefaults(t), n \in 2..MaxInstances :
          /\ settings = Descriptor("PORT", t, d, isUndefined(d), FALSE)
          /\ classes = [c \in {"X"} |->
                           [parent |-> IF derived THEN "Settings" ELSE "Object",
                            props |-> <<[key |-> "value", value |-> settings]>>]]
          /\ defaultValue = createConfigurationProperty(derived, settings)
          /\ nodes = [i \in 1..n |-> NewX(derived, settings)]
    /\ last = None
    /\ variables = <<>>
    /\ ValueIdle /\ AnyIdle /\ CliIdle /\ OuterIdle

NextShare == ShareSetValue \/ ShareUnsetValue \/ ShareWrite \/ ShareRead

SpecShare == InitShare /\ [][NextShare]_vars

\* ------------------------------------------------------------ graphs
\* The fields of node i of a graph: child and, on the root, other, each
\* holding any node of the graph or no node.
GraphFields(i, child, other) ==
    (IF child[i] = 0 THEN <<>> ELSE <<[key |-> "child", value |-> child[i]]>>)
    \o (IF i # 1 \/ other = 0 THEN <<>> ELSE <<[key |-> "other", value |-> other]>>)

\* A call root.getSettings(recursive); the record keeps the nodes the walk
\* made a recursive call on.
GetSettings ==
    \E recursive \in BOOLEAN :
        /\ last' = [k |-> "getSettings", node |-> 1, recursive |-> recursive,
                    value |-> getSettings(1, recursive),
                    entered |-> getSettingsWalk(1, recursive).entered]
        /\ UNCHANGED <<variables, settings, defaultValue, valueVars, anyVars, treeVars, cliVars, outerVars>>

\* A graph of at most MaxNodes nodes whose fields refer to any node, the
\* node itself and its ancestors included; every node is of a class of its
\* own that declares one required variable.
InitGraph ==
    /\ \E n \in 1..MaxNodes :
       \E child \in [1..n -> 0..n], other \in 0..n :
          /\ classes = [c \in {ClassNames[i] : i \in 1..n} \cup {"Settings"} |->
                          IF c = "Settings" THEN [parent |-> "Settings", props |-> <<>>]
                          ELSE [parent |-> "Settings",
                                props |-> <<[key |-> "host", value |->
                                    Descriptor("HOST", "string", Undefined, FALSE, FALSE)]>>]]
          /\ nodes = [i \in 1..n |->
                         [cls |-> ClassNames[i],
                          fields |-> GraphFields(i, child, other),
                          defaults |-> [f \in {"host"} |-> Undefined]]]
    /\ variables = <<>>
    /\ last = None
    /\ settings = None /\ defaultValue = Undefined
    /\ ValueIdle /\ AnyIdle /\ CliIdle /\ OuterIdle

NextGraph == GetSettings \/ GetVariables \/ Verify \/ Stringify

SpecGraph == InitGraph /\ [][NextGraph]_vars

\* ------------------------------------------------------------ declarations
\* Largest number of classes the program defines.
MaxClasses == 3

\* The classes of the program are told apart here from their names: types
\* is the sequence of the classes derived from Settings in the order of
\* their definition, each with its name, the class it extends (0 for
\* Settings itself), the fields it decorates, the metadata object its
\* prototype holds under its store key (ref, the class whose decorators
\* created the object; 0 for none) and the object its own decorators created
\* (props).  Settings decorates no field, so its prototype holds no metadata.
\* getTypeName(target)
getTypeName(ts, c) == ts[c].name

\* getMetaStoreKey(target): `${getTypeName(target)}_VARS`
getMetaStoreKey(ts, c) == <<getTypeName(ts, c), "_VARS">>

\* The prototype chain of the prototype of class c, up to Settings.
RECURSIVE typeChain(_, _)
typeChain(ts, c) ==
    IF c = 0 THEN <<>> ELSE <<c>> \o typeChain(ts, ts[c].parent)

\* Reflect.getMetadata(storeKey, target), target the prototype of class c or
\* an instance of it: the object held under storeKey by the first prototype
\* of the chain that holds one, 0 when none does.
Reflect_getMetadata(ts, storeKey, c) ==
    LET chain == typeChain(ts, c)
        holders == {i \in DOMAIN chain :
                       /\ ts[chain[i]].ref # 0
                       /\ getMetaStoreKey(ts, chain[i]) = storeKey}
    IN IF holders = {} THEN 0
       ELSE ts[chain[CHOOSE i \in holders : \A j \in holders : i <= j]].ref

\* storeConfigurationProperty(target, fieldName, settings), target the
\* prototype of class c: the object found, or a new one, gets the entry and
\* is defined on the prototype of c.
storeConfigurationProperty(ts, c, fieldName, descriptor) ==
    LET found == Reflect_getMetadata(ts, getMetaStoreKey(ts, c), c)
        props == IF found = 0 THEN c ELSE found
    IN [ts EXCEPT ![props].props = Put(@, fieldName, descriptor),
                  ![c].ref = props]

\* The descriptor a test class declares for a field.
FieldDescriptor(fieldName) ==
    IF fieldName = "port"
    THEN Descriptor("PORT", "number", Num(8080), FALSE, FALSE)
    ELSE Descriptor("HOST", "string", Undefined, FALSE, FALSE)

\* The field decorators of class c, applied in the order of the fields when
\* the class is defined.
RECURSIVE createFieldDecorators(_, _, _)
createFieldDecorators(ts, c, fields) ==
    IF fields = <<>> THEN ts
    ELSE createFieldDecorators(
             storeConfigurationProperty(ts, c, Head(fields), FieldDescriptor(Head(fields))),
             c, Tail(fields))

\* extractStoredVariables(target), target an instance of class c, from the
\* class `source` on: the store key is that of source, the lookup starts at
\* the target.
RECURSIVE extractStoredFrom(_, _, _)
extractStoredFrom(c, source, merged) ==
    IF source = 0 THEN merged
    ELSE LET props == Reflect_getMetadata(types, getMetaStoreKey(types, source), c)
         IN extractStoredFrom(c, types[source].parent,
                ObjectAssign(merged, IF props = 0 THEN <<>> ELSE types[props].props))

\* new <class c>().getVariables(false), with nothing set in the source.
getVariablesOfNew(c) ==
    LET envvars == extractStoredFrom(c, c, <<>>)
    IN [i \in DOMAIN envvars |->
           [key |-> envvars[i].key,
            value |-> VariableInfo(envvars[i].value,
                          get(envvars[i].value, variables,
                              createPropertyDescriptor(envvars[i].value)))]]

ClassNameChoices == {"Config", "Other"}

FieldChoices == {<<>>, <<"host">>, <<"port">>, <<"host", "port">>}

\* class <name> extends <parent> { <decorated fields> }
DefineClass ==
    \E name \in ClassNameChoices, parent \in 0..Len(types), fields \in FieldChoices :
        /\ Len(types) < MaxClasses
        /\ types' = createFieldDecorators(
                        Append(types, [name |-> name, parent |-> parent,
                                       fields |-> fields, ref |-> 0, props |-> <<>>]),
                        Len(types) + 1, fields)
        /\ last' = [k |-> "class"]
        /\ UNCHANGED <<variables, settings, defaultValue, valueVars, anyVars, treeVars, cliVars, input>>

\* A call new <class c>().getVariables(false).
GetVariablesOfNew ==
    \E c \in DOMAIN types :
        /\ last' = [k |-> "getVariables", class |-> c, value |-> getVariablesOfNew(c)]
        /\ UNCHANGED <<variables, settings, defaultValue, valueVars, anyVars, treeVars, cliVars, outerVars>>

InitDeclare ==
    /\ types = <<>> /\ input = None
    /\ variables = <<>>
    /\ ValueIdle /\ AnyIdle /\ PropIdle /\ TreeIdle /\ CliIdle

NextDeclare == DefineClass \/ GetVariablesOfNew

SpecDeclare == InitDeclare /\ [][NextDeclare]_vars

\* ------------------------------------------------------------ copies
\* A mapping of names to values is an object, held by reference: variables
\* of an EnvironmentVariables object is the mapping the object made for
\* itself, kept here with its entries, or the mapping of the caller.
OwnMapping(table) == [k |-> "own", table |-> table]

CallerMapping == [k |-> "caller"]

\* The entries of the mapping a reference leads to.
entriesOf(mapping) == IF mapping.k = "own" THEN mapping.table ELSE input.variables

\* new EnvironmentVariables(given) that keeps the mapping it is given.
EnvironmentVariables_aliased(given) == [variables |-> CallerMapping]

\* new EnvironmentVariables(given): Object.assign(this.variables, given)
\* copies the entries into the object's own mapping.
EnvironmentVariables(given) ==
    [variables |-> OwnMapping([name \in DOMAIN given |-> given[name]])]

\* EnvironmentVariables.getValue
EnvironmentVariables_getValue(object, name) ==
    getValue(entriesOf(object.variables), name)

\* The mappings and the token arrays the caller passes and makes of them
\* later.
CallerMappings ==
    {<<>>} \cup {[name \in {"HOST"} |-> Str(t)] : t \in {<<"a">>, <<"b">>}}

CallerArrays ==
    UNION {[1..n -> {<<"-", "p">>, <<"9">>}] : n \in 0..MaxArgs - 1}

\* The caller changes the mapping it passed: sets, replaces or deletes an
\* entry.
InputAssign ==
    \E table \in CallerMappings \ {input.variables} :
        /\ input' = [input EXCEPT !.variables = table]
        /\ UNCHANGED <<variables, propVars, valueVars, anyVars, treeVars, cliVars, types>>

\* The caller changes the array it passed, in place: push, pop, splice or
\* an assignment to an element.
InputSplice ==
    \E argv \in CallerArrays \ {input.argv} :
        /\ input' = [input EXCEPT !.argv = argv]
        /\ UNCHANGED <<variables, propVars, valueVars, anyVars, treeVars, cliVars, types>>

\* A call getValue(name) on one of the two sources; the record keeps what
\* the caller's object held at the call.
CopyGetValue ==
    \/ /\ answer' = [k |-> "getValue", source |-> "env", name |-> Str(<<"H", "O", "S", "T">>),
                      held |-> input.variables,
                      value |-> EnvironmentVariables_getValue(variables, "HOST")]
       /\ UNCHANGED <<cli, variables, propVars, valueVars, anyVars, treeVars, outerVars>>
    \/ \E name \in {Str(<<"-", "p">>), Num(0)} :
          /\ answer' = [k |-> "getValue", source |-> "argv", name |-> name,
                        held |-> input.argv,
                        value |-> CommandLineArguments_getValue(cli, name)]
          /\ UNCHANGED <<cli, variables, propVars, valueVars, anyVars, treeVars, outerVars>>

\* A read of the property bound to HOST on the EnvironmentVariables object.
CopyRead ==
    /\ last' = [k |-> "read", held |-> input.variables,
                value |-> get(settings, entriesOf(variables.variables), defaultValue)]
    /\ UNCHANGED <<settings, defaultValue, variables, valueVars, anyVars, treeVars, cliVars, outerVars>>

\* The two sources constructed from the caller's mapping and array, which
\* the caller keeps (given is what they held at construction), and a
\* property bound to HOST.
InitCopy ==
    /\ \E table \in CallerMappings, argv \in CallerArrays :
          /\ input = [variables |-> table, argv |-> argv,
                      given |-> [variables |-> table, argv |-> argv]]
          /\ variables = EnvironmentVariables(table)
          /\ cli = CommandLineArguments(argv)
    /\ answer = None
    /\ settings = Descriptor("HOST", "string", Str(<<"d">>), FALSE, FALSE)
    /\ defaultValue = createPropertyDescriptor(settings)
    /\ last = None
    /\ types = <<>>
    /\ ValueIdle /\ AnyIdle /\ TreeIdle

NextCopy == InputAssign \/ InputSplice \/ CopyGetValue \/ CopyRead

SpecCopy == InitCopy /\ [][NextCopy]_vars

\* ------------------------------------------------------------ C1
\* The value the property's source holds for the property's key.
sourceValue == getValue(variables, settings.name)

\* C1: every read of a bound property returns type.convert(the value the
\* source holds for the key at that moment, the current mutable default),
\* whatever updates of the source, writes and reads came before; a number
\* property reads 3000 while the source holds "3000" and reads its default
\* (8080 when nothing else was written) once the key is unset.
C1_ReadIsLiveConversion ==
    last.k = "read" =>
        /\ last.value = convert(settings.type, sourceValue, defaultValue)
        /\ settings.type = "number" =>
              /\ sourceValue = Str(T_3000) => last.value = Num(3000)
              /\ settings.name \notin DOMAIN variables => last.value = defaultValue

C1_Witness ==
    /\ last.k = "read" /\ settings.type = "number"
    /\ settings.default = Num(8080) /\ defaultValue = Num(80)
    /\ "PORT" \notin DOMAIN variables /\ "HOST" \in DOMAIN variables
    /\ last.value = Num(80)

\* ------------------------------------------------------------ C2
\* C2: a write of an absent value (null or undefined) leaves the mutable
\* default unchanged when the descriptor's static default is present; every
\* other write replaces the mutable default by convert(the written value).
C2_WritePrecedence ==
    last.k = "write" =>
        IF ~isUndefined(settings.default) /\ isUndefined(last.value)
        THEN defaultValue = last.before
        ELSE defaultValue = convert(settings.type, last.value, Undefined)

C2_Witness ==
    /\ last.k = "write"
    /\ settings.default = Num(8080) /\ last.value = Undefined
    /\ last.before = Num(80) /\ defaultValue = Num(80)

\* ------------------------------------------------------------ C3
\* What a freshly bound property, to which nothing was written yet, reads
\* from the source as it is now.
unwrittenRead == get(settings, variables, createPropertyDescriptor(settings))

Present(name) ==
    {i \in 1..Len(sources) : ~isUndefined(getValue(sources[i], name))}

\* C7: AnySource.getValue returns the value of the first source, in list
\* order, whose value for the key is present, and reports absence exactly
\* when every source reports absence.
C7_FirstPresentWins ==
    query.k = "getValue" =>
        IF Present(query.name) = {} THEN isUndefined(query.value)
        ELSE LET first == CHOOSE i \in Present(query.name) :
                              \A j \in Present(query.name) : i <= j
             IN query.value = getValue(sources[first], query.name)

C7_Witness ==
    /\ query.k = "getValue" /\ query.name = "X" /\ Len(sources) >= 2
    /\ getValue(sources[1], "X") = Null
    /\ getValue(sources[2], "X") = Str(<<"5">>)
    /\ query.value = Str(<<"5">>)

\* ------------------------------------------------------------ C4
\* The value a present raw value that is valid for a scalar type is coerced
\* to: its text, the number its text parses to, or the truth value its token
\* stands for.
Coerced(t, v) ==
    CASE t = "string" -> Str(String(v))
      [] t = "number" -> parseFloat(String(v))
      [] t = "boolean" -> Bool(v \in trueValues)

isNumericToken(t) == ~isNaN(parseFloat(t))

\* C5: getArray with the number converter, applied to a comma-separated text,
\* returns the list of the parsed numbers when every token is numeric and the
\* fallback (the empty list when there is none) when some token is not.
C5_AllOrNothing ==
    (op = "convert" /\ type = "number[]" /\ raw.k = "string") =>
        LET tokens == split(raw.s)
        IN IF \A i \in 1..Len(tokens) : isNumericToken(tokens[i])
           THEN result = Arr([i \in 1..Len(tokens) |-> parseFloat(tokens[i])])
           ELSE result = IF isUndefined(dflt) THEN Arr(<<>>) ELSE dflt

\* ------------------------------------------------------------ C6
\* C6: for every element converter and every fallback, getArray returns the
\* fallback (the empty list when the fallback is absent) when the raw value
\* is absent (null or undefined) or blank.
C6_AbsentOrBlankGivesFallback ==
    (op = "convert" /\ type \in ListTypes /\ isUndefinedOrEmpty(raw)) =>
        result = IF isUndefined(dflt) THEN Arr(<<>>) ELSE dflt

\* ------------------------------------------------------------ C8
\* The fields the class of node n declares that are required and whose live
\* value fails the isValid of their type.
InvalidRequired(n) ==
    LET declared == classes[nodes[n].cls].props
    IN {declared[i].key : i \in
           {j \in DOMAIN declared :
               /\ ~declared[j].value.optional
               /\ ~isValid(declared[j].value.type,
                           convert(declared[j].value.type,
                                   getValue(variables, declared[j].value.name),
                                   nodes[n].defaults[declared[j].key]))}}

\* C8: getInvalidVariables() on a node reports a declared field if and only
\* if the field is not optional and its live value fails its type's isValid.
C8_InvalidIffRequiredAndNotValid ==
    (last.k = "getInvalidVariables" /\ ~last.recursive) =>
        KeysOf(last.value) = InvalidRequired(last.node)

C8_Witness ==
    /\ last.k = "getInvalidVariables" /\ ~last.recursive
    /\ "HOST" \notin DOMAIN variables /\ "PORT" \in DOMAIN variables
    /\ KeysOf(classes["Root"].props) = {"host", "port"}
    /\ KeysOf(last.value) = {"host"}

C8_WitnessOptional ==
    /\ last.k = "getInvalidVariables" /\ ~last.recursive
    /\ "HOST" \notin DOMAIN variables
    /\ KeysOf(classes["Root"].props) = {"host"}
    /\ classes["Root"].props[1].value.optional
    /\ last.value = <<>>

\* ------------------------------------------------------------ C9
\* The nodes reachable from node n through nested Settings fields, n included.
RECURSIVE Reachable(_)
Reachable(n) ==
    {n} \cup UNION {Reachable(nodes[n].fields[i].value) : i \in DOMAIN nodes[n].fields}

\* C9: getInvalidVariables(true) on a node returns the invalid required
\* variables of the node and of every node reachable from it, whatever the
\* shape of the tree and the number of own variables of each node.
C9_RecursiveInvalidOfAllNodes ==
    (last.k = "getInvalidVariables" /\ last.recursive) =>
        KeysOf(last.value) = UNION {InvalidRequired(m) : m \in Reachable(last.node)}

\* ------------------------------------------------------------ C10
DeclaredNames(n) == KeysOf(classes[nodes[n].cls].props)

DeclaredCount(n) == Len(classes[nodes[n].cls].props)

\* A call getVariables on the root of a two-level tree: a root and one child.
OnTwoLevelRoot == last.k = "getVariables" /\ Len(nodes) = 2

C10_WitnessDisjoint ==
    /\ OnTwoLevelRoot /\ last.recursive
    /\ DeclaredNames(1) = {"host"} /\ DeclaredNames(2) = {"port"}
    /\ Len(last.value) = 2

\* ------------------------------------------------------------ C11
\* The parse the claim describes, from position i of argv: a token without a
\* leading dash is the next positional; a flag takes the following token as
\* its value and consumes it, unless that token is missing or starts with a
\* dash, and then its value is null and nothing is consumed.
RECURSIVE StatedParse(_, _, _)
StatedParse(argv, i, object) ==
    IF i > Len(argv) THEN object
    ELSE IF ~startsWithDash(argv[i])
    THEN StatedParse(argv, i + 1, [object EXCEPT !.positional = Append(@, argv[i])])
    ELSE IF i = Len(argv) \/ startsWithDash(argv[i + 1])
    THEN StatedParse(argv, i + 1, [object EXCEPT !.variables = setValue(@, argv[i], Null)])
    ELSE StatedParse(argv, i + 2,
             [object EXCEPT !.variables = setValue(@, argv[i], Str(argv[i + 1]))])

\* C11: after construction from argv, getValue(flag) is the value the
\* left-to-right parse records for the flag (the following token, or null
\* when that token is missing or starts with a dash) and getValue(i) is the
\* i-th token the parse took as positional.
C11_FlagTakesFollowingToken ==
    answer.k = "getValue" =>
        LET stated == StatedParse(cli.argv, 1, [positional |-> <<>>, variables |-> <<>>])
        IN answer.value =
              IF answer.name.k = "number"
              THEN IF answer.name.n + 1 \in DOMAIN stated.positional
                   THEN Str(stated.positional[answer.name.n + 1]) ELSE Undefined
              ELSE getValue(stated.variables, answer.name.s)

\* ------------------------------------------------------------ C12
\* The variables declared secret, as pairs of a node and a field name.
SecretVariables ==
    {<<n, f>> \in (DOMAIN nodes) \X {"host", "port"} :
        /\ f \in DeclaredNames(n)
        /\ ValueAt(classes[nodes[n].cls].props, f).secret}

\* The source keys that only secret variables read.
SecretKeys ==
    {key \in PropKeys :
        \A n \in DOMAIN nodes : \A i \in DOMAIN classes[nodes[n].cls].props :
            classes[nodes[n].cls].props[i].value.name = key
                => classes[nodes[n].cls].props[i].value.secret}

\* C12: stringify renders the placeholder "***** (secret)" for every secret
\* variable at every depth, and the text it returned is the text it returns
\* on every source that differs from the one it read only in keys that
\* secret variables alone read.
C12_SecretsNeverRendered ==
    last.k = "stringify" =>
        /\ Cardinality({i \in DOMAIN last.outcome.value :
                           /\ last.outcome.value[i].k = "variable"
                           /\ last.outcome.value[i].text = Placeholder})
              = Cardinality(SecretVariables)
        /\ (\A key \in PropKeys \ SecretKeys :
                getValue(variables, key) = getValue(last.table, key))
              => stringify(1, 0) = last.outcome

C12_Witness ==
    /\ last.k = "stringify" /\ Len(nodes) >= 2
    /\ "HOST" \in DOMAIN last.table /\ "HOST" \notin DOMAIN variables
    /\ <<2, "host">> \in SecretVariables
    /\ \E i \in DOMAIN last.outcome.value :
          /\ last.outcome.value[i].k = "variable"
          /\ last.outcome.value[i].depth = 1
          /\ last.outcome.value[i].name = "host"
          /\ last.outcome.value[i].text = Placeholder

\* ------------------------------------------------------------ C13
\* The classes of the chain of the instance, its own class first.
Chain == PrototypeChain(nodes[1].cls)

\* The field names the classes of the chain declare.
ChainDeclared == UNION {KeysOf(classes[Chain[i]].props) : i \in DOMAIN Chain}

FirstDeclared(f) ==
    LET i == CHOOSE j \in DOMAIN Chain :
                 /\ f \in KeysOf(classes[Chain[j]].props)
                 /\ \A h \in 1..j - 1 : f \notin KeysOf(classes[Chain[h]].props)
    IN ValueAt(classes[Chain[i]].props, f)

\* C14: for every field, the mapping extractStoredVariables returns holds the
\* descriptor of the first type visited that declares it (the instance's own
\* class before its ancestors); an ancestor's descriptor does not replace it.
C14_OwnDeclarationKept ==
    last.k = "extractStoredVariables" =>
        \A f \in KeysOf(last.value) : ValueAt(last.value, f) = FirstDeclared(f)

\* ------------------------------------------------------------ C16
\* The fields whose declaration (the first one from the instance's own class
\* upward) was made with a bare name.
BareDeclared ==
    {f \in ChainDeclared :
        \E t \in TypeNames :
            FirstDeclared(f) = createDecoratorFactoryForType(t, Str(FirstDeclared(f).name))}

\* C16: a field declared with a bare name is registered as optional and is in
\* no result of getInvalidVariables and in no verify().missing, whatever its
\* source holds.
C16_BareDeclarationsNeverInvalid ==
    /\ last.k = "getInvalidVariables" => KeysOf(last.value) \cap BareDeclared = {}
    /\ last.k = "verify" => KeysOf(last.outcome.value.missing) \cap BareDeclared = {}

\* ------------------------------------------------------------ C15
\* The key the claim has the getter pass to the source: the descriptor's name
\* when it has one, its index otherwise.
LookupKey == IF "index" \in DOMAIN settings THEN settings.index ELSE Str(settings.name)

\* C15: a read of a property bound to the command line returns the
\* conversion of what the source returns for the descriptor's name or, when
\* it has none, for its positional index.
C15_IndexedFieldReadsPositional ==
    (last.k = "read" /\ cli # None) =>
        last.value = convert(settings.type, CommandLineArguments_getValue(cli, LookupKey),
                             defaultValue)

\* ------------------------------------------------------------ C17
\* C17: for every type, default and source value, the class that declares
\* the default in its descriptor and the class that declares the bare name
\* and assigns the default to the field read the same value.
C17_DescriptorAndInitializerAgree ==
    op = "decoratorTest" => result.x = result.y

\* ------------------------------------------------------------ C18
\* C18: a write to a field of one instance leaves the value every other
\* instance of the class reads for the field as it was before the write,
\* for classes derived from Settings and for plain decorated classes.
C18_WritesArePerInstance ==
    last.k = "write" =>
        \A j \in DOMAIN nodes \ {last.node} : readOf(j) = last.before[j]

\* ------------------------------------------------------------ C19
\* C19: getSettings(true) returns on every graph of nodes, with back
\* references and shared nodes, and makes at most one recursive call on each
\* node.
C19_GetSettingsEntersOnce ==
    (last.k = "getSettings" /\ last.recursive) =>
        /\ \A i, j \in DOMAIN last.entered :
              last.entered[i] = last.entered[j] => i = j
        /\ \A i \in DOMAIN last.value : last.value[i].value \in DOMAIN nodes

C19_Witness ==
    /\ last.k = "getSettings" /\ last.recursive /\ Len(nodes) = 3
    /\ nodes[1].fields = <<[key |-> "child", value |-> 2], [key |-> "other", value |-> 3]>>
    /\ nodes[2].fields = <<[key |-> "child", value |-> 3]>>
    /\ nodes[3].fields = <<[key |-> "child", value |-> 1]>>
    /\ last.entered = <<2, 3, 1>>

\* ------------------------------------------------------------ C20
\* C20: getVariables(true), verify() and stringify() return on every graph
\* of nodes, reference cycles included, instead of recursing until the call
\* stack is exhausted.
C20_WalksReturnOnCycles ==
    /\ (last.k = "getVariables" /\ last.recursive) => ~last.threw
    /\ last.k \in {"verify", "stringify"} => ~last.outcome.threw

\* ------------------------------------------------------------ C21
\* The element type of a list type, and the tag of the values of a scalar type.
ElementTag(t) ==
    CASE t \in {"string", "string[]"} -> "string"
      [] t \in {"number", "number[]"} -> "number"
      [] t \in {"boolean", "boolean[]"} -> "boolean"

\* v is a value of type t: for a list type, a list whose every element has
\* the element type.
OfType(t, v) ==
    IF t \in ScalarTypes THEN v.k = ElementTag(t)
    ELSE /\ v.k = "array"
         /\ \A i \in DOMAIN v.a : v.a[i].k = ElementTag(t)

\* C21: for each of the six types, every raw value and every default,
\* convert(raw, default) returns a value of the target type or the default.
C21_ConvertGivesTypeOrDefault ==
    op = "convert" => (result = dflt \/ OfType(type, result))

\* ------------------------------------------------------------ C22
\* C22: in every report verify() returns, count.variables and count.missing
\* are the numbers of entries of variables and of missing, count.optional and
\* count.secret are the numbers of entries of variables flagged optional and
\* secret, every key of missing is a key of variables, and every entry of
\* missing is a variable that is not optional.
C22_ReportConsistent ==
    (last.k = "verify" /\ ~last.outcome.threw) =>
        LET report == last.outcome.value
        IN /\ report.count.variables = Cardinality(KeysOf(report.variables))
           /\ report.count.missing = Cardinality(KeysOf(report.missing))
           /\ report.count.optional =
                  Cardinality({f \in KeysOf(report.variables) :
                                  ValueAt(report.variables, f).optional})
           /\ report.count.secret =
                  Cardinality({f \in KeysOf(report.variables) :
                                  ValueAt(report.variables, f).secret})
           /\ KeysOf(report.missing) \subseteq KeysOf(report.variables)
           /\ \A f \in KeysOf(report.missing) : ~ValueAt(report.missing, f).optional

C22_Witness ==
    /\ last.k = "verify" /\ ~last.outcome.threw
    /\ Len(nodes) = 3
    /\ last.outcome.value.count = [variables |-> 2, optional |-> 1, secret |-> 1, missing |-> 1]

\* ------------------------------------------------------------ C23
\* C23: after any sequence of class definitions, getVariables(false) of an
\* instance of a class holds only fields that the class or a class it
\* extends declares: a field declared on a class never appears on an
\* instance of an ancestor or of an unrelated class.
C23_FieldsOfOwnChainOnly ==
    last.k = "getVariables" =>
        \A f \in KeysOf(last.value) :
            \E i \in DOMAIN typeChain(types, last.class) :
                \E j \in DOMAIN types[typeChain(types, last.class)[i]].fields :
                    types[typeChain(types, last.class)[i]].fields[j] = f

\* ------------------------------------------------------------ C24
\* The tokens of argv that the roles mark as positional, in their order.
RECURSIVE PositionalTokens(_, _)
PositionalTokens(argv, roles) ==
    IF argv = <<>> \/ roles = <<>> THEN <<>>
    ELSE (IF Head(roles) = "positional" THEN <<Head(argv)>> ELSE <<>>)
         \o PositionalTokens(Tail(argv), Tail(roles))

CountOf(roles, role) == Cardinality({i \in DOMAIN roles : roles[i] = role})

\* C24: the parse of a command line ends with every token accounted for
\* once: the positional entries, the flag tokens and the tokens consumed as
\* flag values are as many as the tokens of argv, and the positional list is
\* the list of the tokens taken as positional, in the order of argv.
C24_EveryTokenAccountedOnce ==
    cli # None =>
        /\ Len(cli.roles) = Len(cli.argv)
        /\ Len(cli.positional) + CountOf(cli.roles, "flag") + CountOf(cli.roles, "value")
              = Len(cli.argv)
        /\ \A i \in DOMAIN cli.roles :
              /\ cli.roles[i] = "flag" <=> startsWithDash(cli.argv[i])
              /\ cli.roles[i] = "value" => (i > 1 /\ cli.roles[i - 1] = "flag")
        /\ cli.positional = PositionalTokens(cli.argv, cli.roles)

C24_Witness ==
    /\ answer.k = "getValue"
    /\ Len(cli.argv) = 3
    /\ cli.roles = <<"flag", "value", "positional">>

\* ------------------------------------------------------------ C25
\* C25: the mapping one getSettings call returns, recursive or not, holds no
\* node under two keys, whether nodes are referred to by several fields or
\* lie on a reference cycle.
C25_NoNodeUnderTwoKeys ==
    last.k = "getSettings" =>
        \A i, j \in DOMAIN last.value :
            last.value[i].value = last.value[j].value => i = j

C25_Witness ==
    /\ last.k = "getSettings" /\ ~last.recursive /\ Len(nodes) = 2
    /\ nodes[1].fields = <<[key |-> "child", value |-> 2], [key |-> "other", value |-> 2]>>
    /\ nodes[2].fields = <<[key |-> "child", value |-> 1]>>
    /\ last.value = <<[key |-> "child", value |-> 2]>>

C25_WitnessCycle ==
    /\ last.k = "getSettings" /\ last.recursive /\ Len(nodes) = 3
    /\ nodes[1].fields = <<[key |-> "child", value |-> 2], [key |-> "other", value |-> 3]>>
    /\ nodes[2].fields = <<[key |-> "child", value |-> 3]>>
    /\ nodes[3].fields = <<[key |-> "child", value |-> 1]>>
    /\ Len(last.value) = 1

C27_SourcesKeepConstructionInput ==
    /\ (answer.k = "getValue" /\ answer.source = "env") =>
          answer.value = getValue(input.given.variables, "HOST")
    /\ (answer.k = "getValue" /\ answer.source = "argv") =>
          answer.value =
              CommandLineArguments_getValue(CommandLineArguments(input.given.argv),
                                            answer.name)
    /\ last.k = "read" =>
          last.value = get(settings, input.given.variables, defaultValue)

C27_Witness ==
    /\ answer.k = "getValue" /\ answer.source = "env"
    /\ input.given.variables # <<>>
    /\ answer.held = <<>>
    /\ answer.value = Str(<<"a">>)
    /\ last.k = "read" /\ last.held = <<>> /\ last.value = Str(<<"a">>)

C27_WitnessArgv ==
    /\ answer.k = "getValue" /\ answer.source = "argv"
    /\ input.given.argv = <<<<"-", "p">>, <<"9">>>>
    /\ answer.held = <<>>
    /\ answer.name = Str(<<"-", "p">>) /\ answer.value = Str(<<"9">>)

====
